---- MODULE Spec2Model ----
(***************************************************************************)
(* Model of GoogleBooksAssistant (src/main.py): search_books,              *)
(* analyze_books and recommend_similar_books, with the two HTTP services   *)
(* as a nondeterministic environment.                                      *)
(*                                                                         *)
(* JSON / Python values are tagged records [k |-> kind, v |-> payload]:    *)
(*   None/null, str (payload: the sequence of its Unicode code points),    *)
(*   int, list (payload: sequence of values) and dict (payload: the        *)
(*   sequence of <<key, value>> pairs in insertion order).                 *)
(* Every Python str of the model (queries, titles, dict keys, prompts,     *)
(* generated texts) is the sequence of its code points; U("...") writes    *)
(* one from its ASCII spelling.                                            *)
(***************************************************************************)
EXTENDS Integers, Sequences, FiniteSets, TLC

VARIABLES op, pc, query, max_results, book_title, max_recommendations,
          books_arg, question, response, calls, prompt, lookup, found,
          categories, ref_title, i, similar_books, log, caught, ret, exc

\* op, pc            the public operation in progress and its position
\* query .. question the arguments of the operation
\* response          what the service answered to a direct search_books or
\*                   analyze_books call (the local `response`)
\* calls             the HTTP GETs issued so far: [q, maxResults]
\* prompt            the prompts sent to the generation service
\* lookup            how the reference lookup of line 129 ended: "pending",
\*                   "raised", "empty" (not reference_book) or "found"
\* found             what the latest category search returned (`books` at
\*                   line 141, before the filter)
\* categories, i     the loop of lines 139-145 and its position
\* ref_title         title of reference_book[0]
\* similar_books     the accumulator of line 138
\* log               logger.error entries
\* caught            the exception the operation's own except clause caught
\* ret, exc          value returned to the caller / exception raised to it
vars == <<op, pc, query, max_results, book_title, max_recommendations,
          books_arg, question, response, calls, prompt, lookup, found,
          categories, ref_title, i, similar_books, log, caught, ret, exc>>

(* ------------------------------ bounds --------------------------------- *)
MaxItems == 2
MaxCats == 2
MaxRec == 2
MaxText == 3
MaxBooks == 2
MaxGen == 2

(* --------------------------- Python values ----------------------------- *)
\* the printable ASCII characters in code point order: U+0020 to U+005F
\* and U+0061 to U+007E
AsciiLow == " !\"#$%&'()*+,-./0123456789:;<=>?@ABCDEFGHIJKLMNOPQRSTUVWXYZ[\\]^_"
AsciiHigh == "abcdefghijklmnopqrstuvwxyz{|}~"
\* ord(c) for a character of a str literal of the source
Ord(c) ==
    IF c = "\n" THEN 10
    ELSE IF \E n \in 1..Len(AsciiLow) : SubSeq(AsciiLow, n, n) = c
    THEN 31 + CHOOSE n \in 1..Len(AsciiLow) : SubSeq(AsciiLow, n, n) = c
    ELSE 96 + CHOOSE n \in 1..Len(AsciiHigh) : SubSeq(AsciiHigh, n, n) = c
\* the code points of a str literal
U(s) == [n \in 1..Len(s) |-> Ord(SubSeq(s, n, n))]

None == [k |-> "None", v |-> 0]
JStr(s) == [k |-> "str", v |-> s]
JInt(n) == [k |-> "int", v |-> n]
JList(s) == [k |-> "list", v |-> s]
JObj(pairs) == [k |-> "dict", v |-> pairs]
EmptyDict == JObj(<<>>)
\* a body response.json() cannot parse
NotJson == [k |-> "notjson", v |-> 0]
\* a body of valid JSON nested deeper than json.loads can follow
TooDeep == [k |-> "toodeep", v |-> 0]
\* a body of valid JSON with an integer of more digits than int() accepts
HugeInt == [k |-> "hugeint", v |-> 0]

\* the str literals of the source
k_items == U("items")
k_volumeInfo == U("volumeInfo")
k_title == U("title")
k_authors == U("authors")
k_description == U("description")
k_categories == U("categories")
k_previewLink == U("previewLink")
k_pageCount == U("pageCount")

HasKey(d, key) == \E n \in 1..Len(d.v) : d.v[n][1] = key
\* dict.get(key, default): the default is used only when the key is absent
DictGet(d, key, default) ==
    IF HasKey(d, key)
    THEN d.v[CHOOSE n \in 1..Len(d.v) : d.v[n][1] = key][2]
    ELSE default

\* `for x in value` and sep.join(value): a list gives its elements, a str
\* its characters, a dict its keys; None and int raise TypeError
Iterable(x) == x.k \in {"list", "str", "dict"}
Elements(x) ==
    CASE x.k = "list" -> x.v
      [] x.k = "str" -> [n \in 1..Len(x.v) |-> JStr(<<x.v[n]>>)]
      [] x.k = "dict" -> [n \in 1..Len(x.v) |-> JStr(x.v[n][1])]

\* str(n) for an int
RECURSIVE IntStr(_)
IntStr(n) ==
    IF n < 0 THEN <<45>> \o IntStr(0 - n)
    ELSE IF n < 10 THEN <<48 + n>>
    ELSE Append(IntStr(n \div 10), 48 + (n % 10))

\* the code points above U+007F for which str.isprintable() is false
\* (Unicode 14.0.0, the database of CPython 3.11), as inclusive ranges
NonPrintable ==
    <<
    <<128, 160>>, <<173, 173>>, <<888, 889>>, <<896, 899>>, <<907, 907>>,
    <<909, 909>>, <<930, 930>>, <<1328, 1328>>, <<1367, 1368>>,
    <<1419, 1420>>, <<1424, 1424>>, <<1480, 1487>>, <<1515, 1518>>,
    <<1525, 1541>>, <<1564, 1564>>, <<1757, 1757>>, <<1806, 1807>>,
    <<1867, 1868>>, <<1970, 1983>>, <<2043, 2044>>, <<2094, 2095>>,
    <<2111, 2111>>, <<2140, 2141>>, <<2143, 2143>>, <<2155, 2159>>,
    <<2191, 2199>>, <<2274, 2274>>, <<2436, 2436>>, <<2445, 2446>>,
    <<2449, 2450>>, <<2473, 2473>>, <<2481, 2481>>, <<2483, 2485>>,
    <<2490, 2491>>, <<2501, 2502>>, <<2505, 2506>>, <<2511, 2518>>,
    <<2520, 2523>>, <<2526, 2526>>, <<2532, 2533>>, <<2559, 2560>>,
    <<2564, 2564>>, <<2571, 2574>>, <<2577, 2578>>, <<2601, 2601>>,
    <<2609, 2609>>, <<2612, 2612>>, <<2615, 2615>>, <<2618, 2619>>,
    <<2621, 2621>>, <<2627, 2630>>, <<2633, 2634>>, <<2638, 2640>>,
    <<2642, 2648>>, <<2653, 2653>>, <<2655, 2661>>, <<2679, 2688>>,
    <<2692, 2692>>, <<2702, 2702>>, <<2706, 2706>>, <<2729, 2729>>,
    <<2737, 2737>>, <<2740, 2740>>, <<2746, 2747>>, <<2758, 2758>>,
    <<2762, 2762>>, <<2766, 2767>>, <<2769, 2783>>, <<2788, 2789>>,
    <<2802, 2808>>, <<2816, 2816>>, <<2820, 2820>>, <<2829, 2830>>,
    <<2833, 2834>>, <<2857, 2857>>, <<2865, 2865>>, <<2868, 2868>>,
    <<2874, 2875>>, <<2885, 2886>>, <<2889, 2890>>, <<2894, 2900>>,
    <<2904, 2907>>, <<2910, 2910>>, <<2916, 2917>>, <<2936, 2945>>,
    <<2948, 2948>>, <<2955, 2957>>, <<2961, 2961>>, <<2966, 2968>>,
    <<2971, 2971>>, <<2973, 2973>>, <<2976, 2978>>, <<2981, 2983>>,
    <<2987, 2989>>, <<3002, 3005>>, <<3011, 3013>>, <<3017, 3017>>,
    <<3022, 3023>>, <<3025, 3030>>, <<3032, 3045>>, <<3067, 3071>>,
    <<3085, 3085>>, <<3089, 3089>>, <<3113, 3113>>, <<3130, 3131>>,
    <<3141, 3141>>, <<3145, 3145>>, <<3150, 3156>>, <<3159, 3159>>,
    <<3163, 3164>>, <<3166, 3167>>, <<3172, 3173>>, <<3184, 3190>>,
    <<3213, 3213>>, <<3217, 3217>>, <<3241, 3241>>, <<3252, 3252>>,
    <<3258, 3259>>, <<3269, 3269>>, <<3273, 3273>>, <<3278, 3284>>,
    <<3287, 3292>>, <<3295, 3295>>, <<3300, 3301>>, <<3312, 3312>>,
    <<3315, 3327>>, <<3341, 3341>>, <<3345, 3345>>, <<3397, 3397>>,
    <<3401, 3401>>, <<3408, 3411>>, <<3428, 3429>>, <<3456, 3456>>,
    <<3460, 3460>>, <<3479, 3481>>, <<3506, 3506>>, <<3516, 3516>>,
    <<3518, 3519>>, <<3527, 3529>>, <<3531, 3534>>, <<3541, 3541>>,
    <<3543, 3543>>, <<3552, 3557>>, <<3568, 3569>>, <<3573, 3584>>,
    <<3643, 3646>>, <<3676, 3712>>, <<3715, 3715>>, <<3717, 3717>>,
    <<3723, 3723>>, <<3748, 3748>>, <<3750, 3750>>, <<3774, 3775>>,
    <<3781, 3781>>, <<3783, 3783>>, <<3790, 3791>>, <<3802, 3803>>,
    <<3808, 3839>>, <<3912, 3912>>, <<3949, 3952>>, <<3992, 3992>>,
    <<4029, 4029>>, <<4045, 4045>>, <<4059, 4095>>, <<4294, 4294>>,
    <<4296, 4300>>, <<4302, 4303>>, <<4681, 4681>>, <<4686, 4687>>,
    <<4695, 4695>>, <<4697, 4697>>, <<4702, 4703>>, <<4745, 4745>>,
    <<4750, 4751>>, <<4785, 4785>>, <<4790, 4791>>, <<4799, 4799>>,
    <<4801, 4801>>, <<4806, 4807>>, <<4823, 4823>>, <<4881, 4881>>,
    <<4886, 4887>>, <<4955, 4956>>, <<4989, 4991>>, <<5018, 5023>>,
    <<5110, 5111>>, <<5118, 5119>>, <<5760, 5760>>, <<5789, 5791>>,
    <<5881, 5887>>, <<5910, 5918>>, <<5943, 5951>>, <<5972, 5983>>,
    <<5997, 5997>>, <<6001, 6001>>, <<6004, 6015>>, <<6110, 6111>>,
    <<6122, 6127>>, <<6138, 6143>>, <<6158, 6158>>, <<6170, 6175>>,
    <<6265, 6271>>, <<6315, 6319>>, <<6390, 6399>>, <<6431, 6431>>,
    <<6444, 6447>>, <<6460, 6463>>, <<6465, 6467>>, <<6510, 6511>>,
    <<6517, 6527>>, <<6572, 6575>>, <<6602, 6607>>, <<6619, 6621>>,
    <<6684, 6685>>, <<6751, 6751>>, <<6781, 6782>>, <<6794, 6799>>,
    <<6810, 6815>>, <<6830, 6831>>, <<6863, 6911>>, <<6989, 6991>>,
    <<7039, 7039>>, <<7156, 7163>>, <<7224, 7226>>, <<7242, 7244>>,
    <<7305, 7311>>, <<7355, 7356>>, <<7368, 7375>>, <<7419, 7423>>,
    <<7958, 7959>>, <<7966, 7967>>, <<8006, 8007>>, <<8014, 8015>>,
    <<8024, 8024>>, <<8026, 8026>>, <<8028, 8028>>, <<8030, 8030>>,
    <<8062, 8063>>, <<8117, 8117>>, <<8133, 8133>>, <<8148, 8149>>,
    <<8156, 8156>>, <<8176, 8177>>, <<8181, 8181>>, <<8191, 8207>>,
    <<8232, 8239>>, <<8287, 8303>>, <<8306, 8307>>, <<8335, 8335>>,
    <<8349, 8351>>, <<8385, 8399>>, <<8433, 8447>>, <<8588, 8591>>,
    <<9255, 9279>>, <<9291, 9311>>, <<11124, 11125>>, <<11158, 11158>>,
    <<11508, 11512>>, <<11558, 11558>>, <<11560, 11564>>, <<11566, 11567>>,
    <<11624, 11630>>, <<11633, 11646>>, <<11671, 11679>>, <<11687, 11687>>,
    <<11695, 11695>>, <<11703, 11703>>, <<11711, 11711>>, <<11719, 11719>>,
    <<11727, 11727>>, <<11735, 11735>>, <<11743, 11743>>, <<11870, 11903>>,
    <<11930, 11930>>, <<12020, 12031>>, <<12246, 12271>>, <<12284, 12288>>,
    <<12352, 12352>>, <<12439, 12440>>, <<12544, 12548>>, <<12592, 12592>>,
    <<12687, 12687>>, <<12772, 12783>>, <<12831, 12831>>, <<42125, 42127>>,
    <<42183, 42191>>, <<42540, 42559>>, <<42744, 42751>>, <<42955, 42959>>,
    <<42962, 42962>>, <<42964, 42964>>, <<42970, 42993>>, <<43053, 43055>>,
    <<43066, 43071>>, <<43128, 43135>>, <<43206, 43213>>, <<43226, 43231>>,
    <<43348, 43358>>, <<43389, 43391>>, <<43470, 43470>>, <<43482, 43485>>,
    <<43519, 43519>>, <<43575, 43583>>, <<43598, 43599>>, <<43610, 43611>>,
    <<43715, 43738>>, <<43767, 43776>>, <<43783, 43784>>, <<43791, 43792>>,
    <<43799, 43807>>, <<43815, 43815>>, <<43823, 43823>>, <<43884, 43887>>,
    <<44014, 44015>>, <<44026, 44031>>, <<55204, 55215>>, <<55239, 55242>>,
    <<55292, 63743>>, <<64110, 64111>>, <<64218, 64255>>, <<64263, 64274>>,
    <<64280, 64284>>, <<64311, 64311>>, <<64317, 64317>>, <<64319, 64319>>,
    <<64322, 64322>>, <<64325, 64325>>, <<64451, 64466>>, <<64912, 64913>>,
    <<64968, 64974>>, <<64976, 65007>>, <<65050, 65055>>, <<65107, 65107>>,
    <<65127, 65127>>, <<65132, 65135>>, <<65141, 65141>>, <<65277, 65280>>,
    <<65471, 65473>>, <<65480, 65481>>, <<65488, 65489>>, <<65496, 65497>>,
    <<65501, 65503>>, <<65511, 65511>>, <<65519, 65531>>, <<65534, 65535>>,
    <<65548, 65548>>, <<65575, 65575>>, <<65595, 65595>>, <<65598, 65598>>,
    <<65614, 65615>>, <<65630, 65663>>, <<65787, 65791>>, <<65795, 65798>>,
    <<65844, 65846>>, <<65935, 65935>>, <<65949, 65951>>, <<65953, 65999>>,
    <<66046, 66175>>, <<66205, 66207>>, <<66257, 66271>>, <<66300, 66303>>,
    <<66340, 66348>>, <<66379, 66383>>, <<66427, 66431>>, <<66462, 66462>>,
    <<66500, 66503>>, <<66518, 66559>>, <<66718, 66719>>, <<66730, 66735>>,
    <<66772, 66775>>, <<66812, 66815>>, <<66856, 66863>>, <<66916, 66926>>,
    <<66939, 66939>>, <<66955, 66955>>, <<66963, 66963>>, <<66966, 66966>>,
    <<66978, 66978>>, <<66994, 66994>>, <<67002, 67002>>, <<67005, 67071>>,
    <<67383, 67391>>, <<67414, 67423>>, <<67432, 67455>>, <<67462, 67462>>,
    <<67505, 67505>>, <<67515, 67583>>, <<67590, 67591>>, <<67593, 67593>>,
    <<67638, 67638>>, <<67641, 67643>>, <<67645, 67646>>, <<67670, 67670>>,
    <<67743, 67750>>, <<67760, 67807>>, <<67827, 67827>>, <<67830, 67834>>,
    <<67868, 67870>>, <<67898, 67902>>, <<67904, 67967>>, <<68024, 68027>>,
    <<68048, 68049>>, <<68100, 68100>>, <<68103, 68107>>, <<68116, 68116>>,
    <<68120, 68120>>, <<68150, 68151>>, <<68155, 68158>>, <<68169, 68175>>,
    <<68185, 68191>>, <<68256, 68287>>, <<68327, 68330>>, <<68343, 68351>>,
    <<68406, 68408>>, <<68438, 68439>>, <<68467, 68471>>, <<68498, 68504>>,
    <<68509, 68520>>, <<68528, 68607>>, <<68681, 68735>>, <<68787, 68799>>,
    <<68851, 68857>>, <<68904, 68911>>, <<68922, 69215>>, <<69247, 69247>>,
    <<69290, 69290>>, <<69294, 69295>>, <<69298, 69375>>, <<69416, 69423>>,
    <<69466, 69487>>, <<69514, 69551>>, <<69580, 69599>>, <<69623, 69631>>,
    <<69710, 69713>>, <<69750, 69758>>, <<69821, 69821>>, <<69827, 69839>>,
    <<69865, 69871>>, <<69882, 69887>>, <<69941, 69941>>, <<69960, 69967>>,
    <<70007, 70015>>, <<70112, 70112>>, <<70133, 70143>>, <<70162, 70162>>,
    <<70207, 70271>>, <<70279, 70279>>, <<70281, 70281>>, <<70286, 70286>>,
    <<70302, 70302>>, <<70314, 70319>>, <<70379, 70383>>, <<70394, 70399>>,
    <<70404, 70404>>, <<70413, 70414>>, <<70417, 70418>>, <<70441, 70441>>,
    <<70449, 70449>>, <<70452, 70452>>, <<70458, 70458>>, <<70469, 70470>>,
    <<70473, 70474>>, <<70478, 70479>>, <<70481, 70486>>, <<70488, 70492>>,
    <<70500, 70501>>, <<70509, 70511>>, <<70517, 70655>>, <<70748, 70748>>,
    <<70754, 70783>>, <<70856, 70863>>, <<70874, 71039>>, <<71094, 71095>>,
    <<71134, 71167>>, <<71237, 71247>>, <<71258, 71263>>, <<71277, 71295>>,
    <<71354, 71359>>, <<71370, 71423>>, <<71451, 71452>>, <<71468, 71471>>,
    <<71495, 71679>>, <<71740, 71839>>, <<71923, 71934>>, <<71943, 71944>>,
    <<71946, 71947>>, <<71956, 71956>>, <<71959, 71959>>, <<71990, 71990>>,
    <<71993, 71994>>, <<72007, 72015>>, <<72026, 72095>>, <<72104, 72105>>,
    <<72152, 72153>>, <<72165, 72191>>, <<72264, 72271>>, <<72355, 72367>>,
    <<72441, 72703>>, <<72713, 72713>>, <<72759, 72759>>, <<72774, 72783>>,
    <<72813, 72815>>, <<72848, 72849>>, <<72872, 72872>>, <<72887, 72959>>,
    <<72967, 72967>>, <<72970, 72970>>, <<73015, 73017>>, <<73019, 73019>>,
    <<73022, 73022>>, <<73032, 73039>>, <<73050, 73055>>, <<73062, 73062>>,
    <<73065, 73065>>, <<73103, 73103>>, <<73106, 73106>>, <<73113, 73119>>,
    <<73130, 73439>>, <<73465, 73647>>, <<73649, 73663>>, <<73714, 73726>>,
    <<74650, 74751>>, <<74863, 74863>>, <<74869, 74879>>, <<75076, 77711>>,
    <<77811, 77823>>, <<78895, 82943>>, <<83527, 92159>>, <<92729, 92735>>,
    <<92767, 92767>>, <<92778, 92781>>, <<92863, 92863>>, <<92874, 92879>>,
    <<92910, 92911>>, <<92918, 92927>>, <<92998, 93007>>, <<93018, 93018>>,
    <<93026, 93026>>, <<93048, 93052>>, <<93072, 93759>>, <<93851, 93951>>,
    <<94027, 94030>>, <<94088, 94094>>, <<94112, 94175>>, <<94181, 94191>>,
    <<94194, 94207>>, <<100344, 100351>>, <<101590, 101631>>,
    <<101641, 110575>>, <<110580, 110580>>, <<110588, 110588>>,
    <<110591, 110591>>, <<110883, 110927>>, <<110931, 110947>>,
    <<110952, 110959>>, <<111356, 113663>>, <<113771, 113775>>,
    <<113789, 113791>>, <<113801, 113807>>, <<113818, 113819>>,
    <<113824, 118527>>, <<118574, 118575>>, <<118599, 118607>>,
    <<118724, 118783>>, <<119030, 119039>>, <<119079, 119080>>,
    <<119155, 119162>>, <<119275, 119295>>, <<119366, 119519>>,
    <<119540, 119551>>, <<119639, 119647>>, <<119673, 119807>>,
    <<119893, 119893>>, <<119965, 119965>>, <<119968, 119969>>,
    <<119971, 119972>>, <<119975, 119976>>, <<119981, 119981>>,
    <<119994, 119994>>, <<119996, 119996>>, <<120004, 120004>>,
    <<120070, 120070>>, <<120075, 120076>>, <<120085, 120085>>,
    <<120093, 120093>>, <<120122, 120122>>, <<120127, 120127>>,
    <<120133, 120133>>, <<120135, 120137>>, <<120145, 120145>>,
    <<120486, 120487>>, <<120780, 120781>>, <<121484, 121498>>,
    <<121504, 121504>>, <<121520, 122623>>, <<122655, 122879>>,
    <<122887, 122887>>, <<122905, 122906>>, <<122914, 122914>>,
    <<122917, 122917>>, <<122923, 123135>>, <<123181, 123183>>,
    <<123198, 123199>>, <<123210, 123213>>, <<123216, 123535>>,
    <<123567, 123583>>, <<123642, 123646>>, <<123648, 124895>>,
    <<124903, 124903>>, <<124908, 124908>>, <<124911, 124911>>,
    <<124927, 124927>>, <<125125, 125126>>, <<125143, 125183>>,
    <<125260, 125263>>, <<125274, 125277>>, <<125280, 126064>>,
    <<126133, 126208>>, <<126270, 126463>>, <<126468, 126468>>,
    <<126496, 126496>>, <<126499, 126499>>, <<126501, 126502>>,
    <<126504, 126504>>, <<126515, 126515>>, <<126520, 126520>>,
    <<126522, 126522>>, <<126524, 126529>>, <<126531, 126534>>,
    <<126536, 126536>>, <<126538, 126538>>, <<126540, 126540>>,
    <<126544, 126544>>, <<126547, 126547>>, <<126549, 126550>>,
    <<126552, 126552>>, <<126554, 126554>>, <<126556, 126556>>,
    <<126558, 126558>>, <<126560, 126560>>, <<126563, 126563>>,
    <<126565, 126566>>, <<126571, 126571>>, <<126579, 126579>>,
    <<126584, 126584>>, <<126589, 126589>>, <<126591, 126591>>,
    <<126602, 126602>>, <<126620, 126624>>, <<126628, 126628>>,
    <<126634, 126634>>, <<126652, 126703>>, <<126706, 126975>>,
    <<127020, 127023>>, <<127124, 127135>>, <<127151, 127152>>,
    <<127168, 127168>>, <<127184, 127184>>, <<127222, 127231>>,
    <<127406, 127461>>, <<127491, 127503>>, <<127548, 127551>>,
    <<127561, 127567>>, <<127570, 127583>>, <<127590, 127743>>,
    <<128728, 128732>>, <<128749, 128751>>, <<128765, 128767>>,
    <<128884, 128895>>, <<128985, 128991>>, <<129004, 129007>>,
    <<129009, 129023>>, <<129036, 129039>>, <<129096, 129103>>,
    <<129114, 129119>>, <<129160, 129167>>, <<129198, 129199>>,
    <<129202, 129279>>, <<129620, 129631>>, <<129646, 129647>>,
    <<129653, 129655>>, <<129661, 129663>>, <<129671, 129679>>,
    <<129709, 129711>>, <<129723, 129727>>, <<129734, 129743>>,
    <<129754, 129759>>, <<129768, 129775>>, <<129783, 129791>>,
    <<129939, 129939>>, <<129995, 130031>>, <<130042, 131071>>,
    <<173792, 173823>>, <<177977, 177983>>, <<178206, 178207>>,
    <<183970, 183983>>, <<191457, 194559>>, <<195102, 196607>>,
    <<201547, 917759>>, <<918000, 1114111>>
    >>
Printable(c) ==
    \/ 32 <= c /\ c <= 126
    \/ c > 127 /\ ~\E n \in 1..Len(NonPrintable) :
                      NonPrintable[n][1] <= c /\ c <= NonPrintable[n][2]

\* the lower-case hexadecimal digits of c, `width` of them
HexDigit(d) == IF d < 10 THEN 48 + d ELSE 87 + d
RECURSIVE Hex(_, _)
Hex(c, width) ==
    IF width = 0 THEN <<>>
    ELSE Append(Hex(c \div 16, width - 1), HexDigit(c % 16))

\* repr(s) for a str: single quotes, unless s has a single quote and no
\* double quote; backslash and the quote in use get a backslash; newline,
\* tab and carriage return become \n, \t, \r; every other character that
\* is not printable becomes \xhh, \uhhhh or \Uhhhhhhhh
ReprStr(s) ==
    LET has(c) == \E n \in 1..Len(s) : s[n] = c
        quote == IF has(39) /\ ~has(34) THEN 34 ELSE 39
        esc(c) ==
            IF c = 92 \/ c = quote THEN <<92, c>>
            ELSE IF c = 9 THEN <<92, 116>>
            ELSE IF c = 10 THEN <<92, 110>>
            ELSE IF c = 13 THEN <<92, 114>>
            ELSE IF Printable(c) THEN <<c>>
            ELSE IF c < 256 THEN <<92, 120>> \o Hex(c, 2)
            ELSE IF c < 65536 THEN <<92, 117>> \o Hex(c, 4)
            ELSE <<92, 85>> \o Hex(c, 8)
        F[n \in 0..Len(s)] ==
            IF n = 0 THEN <<>> ELSE F[n - 1] \o esc(s[n])
    IN <<quote>> \o F[Len(s)] \o <<quote>>

\* str(x), as "{x}" in an f-string gives it, and repr(x) for the elements of
\* a list or dict
RECURSIVE Str(_), Repr(_)
Str(x) ==
    CASE x.k = "str" -> x.v
      [] x.k = "None" -> U("None")
      [] x.k = "int" -> IntStr(x.v)
      [] x.k = "list" ->
            LET F[n \in 0..Len(x.v)] ==
                    IF n = 0 THEN <<>>
                    ELSE IF n = 1 THEN Repr(x.v[1])
                    ELSE F[n - 1] \o U(", ") \o Repr(x.v[n])
            IN U("[") \o F[Len(x.v)] \o U("]")
      [] x.k = "dict" ->
            LET pair(n) == ReprStr(x.v[n][1]) \o U(": ") \o Repr(x.v[n][2])
                F[n \in 0..Len(x.v)] ==
                    IF n = 0 THEN <<>>
                    ELSE IF n = 1 THEN pair(1)
                    ELSE F[n - 1] \o U(", ") \o pair(n)
            IN U("{") \o F[Len(x.v)] \o U("}")
Repr(x) == IF x.k = "str" THEN ReprStr(x.v) ELSE Str(x)

Min(a, b) == IF a < b THEN a ELSE b
Max(a, b) == IF a > b THEN a ELSE b

RECURSIVE SeqsUpTo(_, _)
SeqsUpTo(S, n) ==
    IF n = 0 THEN {<<>>}
    ELSE LET shorter == SeqsUpTo(S, n - 1)
         IN shorter \cup {Append(s, x) : s \in {t \in shorter : Len(t) = n - 1}, x \in S}

(* ---------------------------- search_books ----------------------------- *)
\* Response.raise_for_status(): HTTPError for 4xx and 5xx, nothing otherwise
raise_for_status(status) == 400 <= status /\ status < 600

\* lines 54-61: the record appended for one volume_info dict
BookRecord(volume_info) ==
    [title        |-> DictGet(volume_info, k_title, None),
     authors      |-> DictGet(volume_info, k_authors, JList(<<>>)),
     description  |-> DictGet(volume_info, k_description, JStr(<<>>)),
     categories   |-> DictGet(volume_info, k_categories, JList(<<>>)),
     preview_link |-> DictGet(volume_info, k_previewLink, None),
     page_count   |-> DictGet(volume_info, k_pageCount, None)]

\* line 53: item.get('volumeInfo', {}); item.get needs item to be a dict
VolumeInfoOf(item) == DictGet(item, k_volumeInfo, EmptyDict)

\* lines 52-61: an item that is not a dict, or whose volumeInfo is not a
\* dict, has no .get: AttributeError
ItemRaises(item) == item.k # "dict" \/ VolumeInfoOf(item).k # "dict"

\* lines 49-63 for the parsed body of a response: results.get needs a dict
\* (AttributeError), the loop of line 52 needs an iterable (TypeError) and
\* iterates its elements
ParseBody(body) ==
    IF body.k # "dict"
    THEN [exc |-> "AttributeError", ret |-> <<>>, err |-> FALSE]
    ELSE LET items == DictGet(body, k_items, JList(<<>>))
         IN IF ~Iterable(items)
            THEN [exc |-> "TypeError", ret |-> <<>>, err |-> FALSE]
            ELSE LET its == Elements(items)
                 IN IF \E n \in 1..Len(its) : ItemRaises(its[n])
                    THEN [exc |-> "AttributeError", ret |-> <<>>, err |-> FALSE]
                    ELSE [exc |-> "none",
                          ret |-> [n \in 1..Len(its) |->
                                      BookRecord(VolumeInfoOf(its[n]))],
                          err |-> FALSE]

\* lines 49-67: outcome of search_books once requests.get has sent the
\* request, for the service's response.
\*   exc: the exception that leaves search_books ("none": it returned)
\*   ret: the returned list;  err: whether logger.error was called
\* requests.get raising a transport error, raise_for_status raising and
\* response.json() raising requests.exceptions.JSONDecodeError (a
\* RequestException since requests 2.27) all end in the except clause of
\* line 65. json.loads raising RecursionError on a body nested too deep, or
\* ValueError on an integer of more than 4300 digits, is not a
\* RequestException: it leaves search_books.
Swallowed == [exc |-> "none", ret |-> <<>>, err |-> TRUE]
Answered(resp) ==
    IF resp.kind = "transport" THEN Swallowed
    ELSE IF raise_for_status(resp.status) THEN Swallowed
    ELSE IF resp.body = NotJson THEN Swallowed
    ELSE IF resp.body = TooDeep
    THEN [exc |-> "RecursionError", ret |-> <<>>, err |-> FALSE]
    ELSE IF resp.body = HugeInt
    THEN [exc |-> "ValueError", ret |-> <<>>, err |-> FALSE]
    ELSE ParseBody(resp.body)

\* line 46: requests.get encodes the query parameters as UTF-8 before it
\* sends anything; a str with a surrogate code point cannot be encoded
Encodable(s) == \A n \in 1..Len(s) : ~(55296 <= s[n] /\ s[n] <= 57343)

\* lines 39-67: outcome of one search_books call for query q.
\*   sent: whether the GET was issued
\* An unencodable query makes requests.get raise UnicodeEncodeError, which
\* is not a RequestException: no GET, no log entry, and the exception
\* leaves search_books.
search_books(q, resp) ==
    IF ~Encodable(q)
    THEN [exc |-> "UnicodeEncodeError", ret |-> <<>>, err |-> FALSE, sent |-> FALSE]
    ELSE LET out == Answered(resp)
         IN [exc |-> out.exc, ret |-> out.ret, err |-> out.err, sent |-> TRUE]

(* --------------------- the book-search service ------------------------- *)
Transport == [kind |-> "transport", status |-> 0, body |-> None]
Http(status, body) == [kind |-> "http", status |-> status, body |-> body]
OkStatuses == {200, 300}
ErrStatuses == {404, 500}

Item(volume_info) == JObj(<<<<k_volumeInfo, volume_info>>>>)
\* items that break the shape {volumeInfo: {...}}
BadItems == {Item(None), JStr(U("x"))}

\* bodies: an items list, no items key, items null / an empty object / a
\* string, a body that is not an object, a body that is not JSON, a body
\* nested too deep, a body with an oversized integer
Bodies(items) ==
    {JObj(<<<<k_items, JList(s)>>>>) : s \in SeqsUpTo(items, MaxItems)}
    \cup {EmptyDict, JObj(<<<<k_items, None>>>>), JObj(<<<<k_items, EmptyDict>>>>),
          JObj(<<<<k_items, JStr(U("ab"))>>>>), JList(<<>>), NotJson, TooDeep, HugeInt}

Responses(items, statuses) ==
    {Transport}
    \cup {Http(s, None) : s \in ErrStatuses}
    \cup {Http(s, b) : s \in statuses, b \in Bodies(items)}

\* volumeInfo objects for the search specification: every field alone
\* omitted, every field alone present, all present, none present
VKeys == {"title", "authors", "description", "categories", "previewLink", "pageCount"}
KeyOrder == <<"title", "authors", "description", "categories", "previewLink", "pageCount">>
FieldValue(key) ==
    CASE key = "title" -> JStr(U("Dune"))
      [] key = "authors" -> JList(<<JStr(U("Frank Herbert"))>>)
      [] key = "description" -> JStr(U("A desert planet."))
      [] key = "categories" -> JList(<<JStr(U("Fiction"))>>)
      [] key = "previewLink" -> JStr(U("http://books.google.com/dune"))
      [] key = "pageCount" -> JInt(412)
KeySets == {S \in SUBSET VKeys : Cardinality(S) \in {0, 1, 5, 6}}
VolumeInfoWith(S) ==
    LET keys == SelectSeq(KeyOrder, LAMBDA key : key \in S)
    IN JObj([n \in 1..Len(keys) |-> <<U(keys[n]), FieldValue(keys[n])>>])
SearchVolumeInfos == {VolumeInfoWith(S) : S \in KeySets}
SearchItems == {Item(vi) : vi \in SearchVolumeInfos} \cup {EmptyDict} \cup BadItems
\* what the service can answer to a direct search_books call
SearchResponses == Responses(SearchItems, OkStatuses)

\* what the reference lookup can find: a title, and categories that are
\* absent, null, a list of names, a string, an empty object, a list
\* holding a list with a form feed or a name with a lone surrogate
Cats == {U("Fiction"), U("Science")}
RefTitles == {U("Dune"), U("Dune Messiah")}
CategoryValues ==
    {JList(s) : s \in SeqsUpTo({JStr(c) : c \in Cats}, MaxCats)}
    \cup {None, JStr(U("AB")), EmptyDict, JList(<<JList(<<JStr(<<12>>)>>)>>),
          JList(<<JStr(<<55296>>)>>)}
RefVolumeInfos ==
    {JObj(<<<<k_title, JStr(t)>>>>) : t \in RefTitles}
    \cup {JObj(<<<<k_title, JStr(t)>>, <<k_categories, c>>>>) :
             t \in RefTitles, c \in CategoryValues}
RefItems == {Item(vi) : vi \in RefVolumeInfos}
\* what a category search can find
CatItems == {Item(JObj(<<<<k_title, JStr(t)>>>>)) : t \in RefTitles}
\* what the service can answer to the lookup and to a category search
RefResponses == Responses(RefItems, {200})
CatResponses == Responses(CatItems, {200})

(* ---------------------- recommend_similar_books ------------------------ *)
\* line 129: search_books(book_title, max_results=1)
LookupCallDefault(title) == [q |-> title, maxResults |-> 5]
LookupCall(title) == [q |-> title, maxResults |-> 1]

\* line 140: f"subject:{category}"
SubjectPrefix == U("subject:")
SubjectQuery(category) == SubjectPrefix \o Str(category)

\* line 144: [book for book in books if book['title'] != book_title]
TitleFilterNone(books, title) == books
TitleFilterResolved(books, title) ==
    LET F[n \in 0..Len(books)] ==
            IF n = 0 THEN <<>>
            ELSE IF books[n].title # JStr(title) /\ books[n].title # ref_title
                 THEN Append(F[n - 1], books[n]) ELSE F[n - 1]
    IN F[Len(books)]
TitleFilter(books, title) ==
    LET F[n \in 0..Len(books)] ==
            IF n = 0 THEN <<>>
            ELSE IF books[n].title # JStr(title)
                 THEN Append(F[n - 1], books[n]) ELSE F[n - 1]
    IN F[Len(books)]

\* line 148: similar_books[:max_recommendations]
Truncate(s, m) ==
    IF m >= 0 THEN SubSeq(s, 1, Min(m, Len(s)))
    ELSE SubSeq(s, 1, Max(0, Len(s) + m))

(* ---------------------------- analyze_books ---------------------------- *)
\* the code points str.strip() removes (those with str.isspace())
Whitespace ==
    {9, 10, 11, 12, 13, 28, 29, 30, 31, 32, 133, 160, 5760} \cup (8192..8202)
    \cup {8232, 8233, 8239, 8287, 12288}

\* str.strip(): drop leading and trailing whitespace
StripLeft(text) ==
    LET solid == {n \in 1..Len(text) : text[n] \notin Whitespace}
    IN IF solid = {} THEN <<>>
       ELSE SubSeq(text, CHOOSE n \in solid : \A m \in solid : n <= m, Len(text))
Strip(text) ==
    LET solid == {n \in 1..Len(text) : text[n] \notin Whitespace}
    IN IF solid = {} THEN <<>>
       ELSE SubSeq(text, CHOOSE n \in solid : \A m \in solid : n <= m,
                         CHOOSE n \in solid : \A m \in solid : n >= m)

\* line 114
Apology == U("I apologize, but I encountered an error while analyzing the books.")

\* sep.join(parts) for a sequence of str
Join(sep, parts) ==
    LET F[n \in 0..Len(parts)] ==
            IF n = 0 THEN <<>>
            ELSE IF n = 1 THEN parts[1].v
            ELSE F[n - 1] \o sep \o parts[n].v
    IN F[Len(parts)]

\* ', '.join(x) raises TypeError unless x can be iterated and gives only str
JoinRaises(x) ==
    \/ ~Iterable(x)
    \/ \E n \in 1..Len(Elements(x)) : Elements(x)[n].k # "str"

\* lines 83-86 raise KeyError for a missing key and TypeError when the join
\* of authors or categories does
BookKeys == {"title", "authors", "description", "categories"}
BlockRaises(book) ==
    \/ ~(BookKeys \subseteq DOMAIN book)
    \/ JoinRaises(book.authors)
    \/ JoinRaises(book.categories)

\* lines 83-86: the four-line block of one book
BookLabel == U("Book: ")
AuthorsLabel == U("Authors: ")
DescriptionLabel == U("Description: ")
CategoriesLabel == U("Categories: ")
CommaSpace == U(", ")
Block(book) ==
    BookLabel \o Str(book.title) \o <<10>>
    \o AuthorsLabel \o Join(CommaSpace, Elements(book.authors)) \o <<10>>
    \o DescriptionLabel \o Str(book.description) \o <<10>>
    \o CategoriesLabel \o Join(CommaSpace, Elements(book.categories)) \o <<10>>

\* lines 82-88: "\n".join of the blocks
Context(books) == Join(<<10>>, [n \in 1..Len(books) |-> JStr(Block(books[n]))])

\* lines 91-97
PromptHead == U("Based on the following books information:\n\n")
PromptQuestion == U("\n\nQuestion: ")
PromptTail == U("\n\nPlease provide a detailed analysis of these books in relation to the question. Include relevant comparisons, themes, and insights.")
Prompt(context, q) == PromptHead \o context \o PromptQuestion \o q \o PromptTail

\* lines 80-114: outcome of analyze_books for the generation service's answer.
\* g.kind = "error": generate raised; otherwise g.generations is the list of
\* the candidates' .text, each a str or None
analyze_books(books, g) ==
    IF \E n \in 1..Len(books) : BlockRaises(books[n])
    THEN [ret |-> Apology, err |-> TRUE, sent |-> FALSE]
    ELSE IF g.kind = "error"
    THEN [ret |-> Apology, err |-> TRUE, sent |-> TRUE]
    ELSE IF g.generations = <<>>
    THEN \* generations[0]: IndexError
         [ret |-> Apology, err |-> TRUE, sent |-> TRUE]
    ELSE IF g.generations[1].k # "str"
    THEN \* None.strip(): AttributeError
         [ret |-> Apology, err |-> TRUE, sent |-> TRUE]
    ELSE [ret |-> Strip(g.generations[1].v), err |-> FALSE, sent |-> TRUE]

(* -------------------- the text-generation service ---------------------- *)
\* space, no-break space, "a"
Chars == {32, 160, 97}
Texts == SeqsUpTo(Chars, MaxText)
GenError == [kind |-> "error", generations |-> <<>>]
\* a first candidate followed by up to MaxGen - 1 further ones
GenResponses ==
    {GenError}
    \cup {[kind |-> "ok", generations |-> <<>>]}
    \cup {[kind |-> "ok", generations |-> <<t>> \o [n \in 1..more |-> JStr(<<98>>)]] :
              t \in {JStr(c) : c \in Texts} \cup {None}, more \in 0..(MaxGen - 1)}

\* the books a caller can pass: records as search_books builds them, records
\* whose authors is None or [None] or whose categories is a str, and a dict
\* without the categories key
FullInfo == VolumeInfoWith(VKeys)
AnalyzeBooksArgs ==
    SeqsUpTo({BookRecord(FullInfo), BookRecord(EmptyDict),
              [BookRecord(FullInfo) EXCEPT !.authors = None],
              [BookRecord(FullInfo) EXCEPT !.authors = JList(<<None>>)],
              [BookRecord(FullInfo) EXCEPT !.categories = JStr(U("Fiction"))],
              [title |-> JStr(U("Dune")), authors |-> JList(<<>>),
               description |-> JStr(<<>>)]}, MaxBooks)

(* ------------------------------ actions -------------------------------- *)
Call(q, n) == [q |-> q, maxResults |-> n]

\* lines 28-67, called directly
SearchBooks ==
    /\ op = "search_books" /\ pc = "start"
    /\ \E resp \in SearchResponses : \E out \in {search_books(query, resp)} :
             /\ response' = IF out.sent THEN resp ELSE None
             /\ calls' = IF out.sent THEN Append(calls, Call(query, max_results))
                         ELSE calls
             /\ log' = IF out.err THEN Append(log, "search_error") ELSE log
             /\ caught' = IF out.err THEN "RequestException" ELSE "none"
             /\ ret' = out.ret
             /\ exc' = out.exc
    /\ pc' = "done"
    /\ UNCHANGED <<op, query, max_results, book_title, max_recommendations,
                   books_arg, question, prompt, lookup, found, categories,
                   ref_title, i, similar_books>>

\* lines 69-114
AnalyzeBooks ==
    /\ op = "analyze_books" /\ pc = "start"
    /\ \E g \in GenResponses : \E out \in {analyze_books(books_arg, g)} :
             /\ response' = IF out.sent THEN g ELSE None
             /\ prompt' = IF out.sent
                          THEN Append(prompt, Prompt(Context(books_arg), question))
                          ELSE prompt
             /\ log' = IF out.err THEN Append(log, "analyze_error") ELSE log
             /\ caught' = IF out.err THEN "Exception" ELSE "none"
             /\ ret' = out.ret
             /\ exc' = "none"
    /\ pc' = "done"
    /\ UNCHANGED <<op, query, max_results, book_title, max_recommendations,
                   books_arg, question, calls, lookup, found, categories,
                   ref_title, i, similar_books>>

\* the two ways recommend_similar_books ends
\* lines 150-152: except Exception
RecommendExceptReraise(lg) ==
    /\ log' = Append(lg, "recommend_error")
    /\ caught' = "Exception"
    /\ ret' = <<>>
    /\ exc' = "Exception"
    /\ pc' = "done"
RecommendExcept(lg) ==
    /\ log' = Append(lg, "recommend_error")
    /\ caught' = "Exception"
    /\ ret' = <<>>
    /\ exc' = "none"
    /\ pc' = "done"
RecommendReturn(lg, value) ==
    /\ log' = lg
    /\ caught' = "none"
    /\ ret' = value
    /\ exc' = "none"
    /\ pc' = "done"

\* lines 127-138 (and 148 when there is no category to search)
RecommendLookup ==
    /\ op = "recommend_similar_books" /\ pc = "start"
    /\ \E resp \in RefResponses : \E out \in {search_books(book_title, resp)} :
          LET lg == IF out.err THEN Append(log, "search_error") ELSE log
              cats == out.ret[1].categories
          IN /\ calls' = IF out.sent THEN Append(calls, LookupCall(book_title))
                         ELSE calls
             /\ IF out.exc # "none"
                THEN /\ lookup' = "raised"
                     /\ RecommendExcept(lg)
                     /\ UNCHANGED <<categories, ref_title, i, similar_books>>
                ELSE IF out.ret = <<>>
                THEN /\ lookup' = "empty"
                     /\ RecommendReturn(lg, <<>>)
                     /\ UNCHANGED <<categories, ref_title, i, similar_books>>
                ELSE /\ lookup' = "found"
                     /\ ref_title' = out.ret[1].title
                     /\ similar_books' = <<>>
                     /\ IF ~Iterable(cats)
                        THEN \* for category in None: TypeError
                             /\ RecommendExcept(lg)
                             /\ UNCHANGED <<categories, i>>
                        ELSE IF Elements(cats) = <<>>
                        THEN /\ RecommendReturn(lg, Truncate(<<>>, max_recommendations))
                             /\ UNCHANGED <<categories, i>>
                        ELSE /\ categories' = Elements(cats)
                             /\ i' = 1
                             /\ pc' = "loop"
                             /\ log' = lg
                             /\ UNCHANGED <<caught, ret, exc>>
    /\ UNCHANGED <<op, query, max_results, book_title, max_recommendations,
                   books_arg, question, response, prompt, found>>

\* one iteration of lines 139-145 (and 148 after the last one)
RecommendCategory ==
    /\ op = "recommend_similar_books" /\ pc = "loop"
    /\ \E resp \in CatResponses :
       \E out \in {search_books(SubjectQuery(categories[i]), resp)} :
       \E acc \in {similar_books \o TitleFilter(out.ret, book_title)} :
          LET lg == IF out.err THEN Append(log, "search_error") ELSE log
          IN /\ calls' = IF out.sent
                         THEN Append(calls, Call(SubjectQuery(categories[i]),
                                                 max_recommendations))
                         ELSE calls
             /\ IF out.exc # "none"
                THEN /\ RecommendExcept(lg)
                     /\ UNCHANGED <<found, i, similar_books>>
                ELSE /\ found' = out.ret
                     /\ similar_books' = acc
                     /\ IF i = Len(categories)
                        THEN /\ RecommendReturn(lg, Truncate(acc, max_recommendations))
                             /\ UNCHANGED i
                        ELSE /\ i' = i + 1
                             /\ log' = lg
                             /\ UNCHANGED <<pc, caught, ret, exc>>
    /\ UNCHANGED <<op, query, max_results, book_title, max_recommendations,
                   books_arg, question, response, prompt, lookup,
                   categories, ref_title>>

Idle ==
    /\ pc = "start"
    /\ response = None
    /\ calls = <<>> /\ prompt = <<>> /\ lookup = "pending" /\ found = <<>> /\ log = <<>>
    /\ caught = "none" /\ ret = <<>> /\ exc = "none"
    /\ categories = <<>> /\ ref_title = None /\ i = 0 /\ similar_books = <<>>

InitSearch ==
    /\ op = "search_books"
    /\ query \in {U("dune"), U("subject:Fiction"), <<100, 55296>>}
    /\ max_results \in {1, 5}
    /\ book_title = <<>> /\ max_recommendations = 0
    /\ books_arg = <<>> /\ question = <<>>
    /\ Idle

InitRecommend ==
    /\ op = "recommend_similar_books"
    /\ book_title \in {U("Dune"), U("dune"), <<68, 55296>>}
    /\ max_recommendations \in 1..MaxRec
    /\ query = <<>> /\ max_results = 0
    /\ books_arg = <<>> /\ question = <<>>
    /\ Idle

InitAnalyze ==
    /\ op = "analyze_books"
    /\ books_arg \in AnalyzeBooksArgs
    /\ question \in {U("Which is best?")}
    /\ query = <<>> /\ max_results = 0
    /\ book_title = <<>> /\ max_recommendations = 0
    /\ Idle

NextSearch == SearchBooks
SearchSpec == InitSearch /\ [][NextSearch]_vars

NextAnalyze == AnalyzeBooks
AnalyzeSpec == InitAnalyze /\ [][NextAnalyze]_vars

NextRecommend == RecommendLookup \/ RecommendCategory
RecommendSpec == InitRecommend /\ [][NextRecommend]_vars
Init == InitSearch \/ InitAnalyze \/ InitRecommend
Next == SearchBooks \/ AnalyzeBooks \/ RecommendLookup \/ RecommendCategory
Spec == Init /\ [][Next]_vars

(* ------------------------------ properties ----------------------------- *)
SearchDone == op = "search_books" /\ pc = "done"
AnalyzeDone == op = "analyze_books" /\ pc = "done"
RecommendDone == op = "recommend_similar_books" /\ pc = "done"

\* how the book-search service answered
\* (r = None: no request was sent)
Down(r) == r # None /\ (r.kind = "transport" \/ ~(200 <= r.status /\ r.status < 300))
Successful(r) == r # None /\ r.kind = "http" /\ 200 <= r.status /\ r.status < 300
NoItems(body) ==
    body.k = "dict"
    /\ (HasKey(body, k_items) => DictGet(body, k_items, None) = JList(<<>>))
\* C1: for every response of the book-search service search_books returns
\* to its caller without raising, and a transport failure or a non-2xx
\* status gives an empty sequence and a log entry.
C1_SearchNeverRaises ==
    SearchDone =>
        /\ exc = "none"
        /\ (Down(response) => ret = <<>> /\ log = <<"search_error">>)

\* the value of a field of an item, or the default when the item omits it
FieldOr(item, key, default) ==
    IF HasKey(item, k_volumeInfo) /\ HasKey(DictGet(item, k_volumeInfo, None), key)
    THEN DictGet(DictGet(item, k_volumeInfo, None), key, None)
    ELSE default

\* C2: a successful response whose items array has N items gives exactly N
\* records, the n-th built from the n-th item, with omitted authors and
\* categories defaulted to the empty list, description to the empty string
\* and title, preview_link and page_count to None; a response without an
\* items key gives the empty sequence.
C2_RecordsFollowItems ==
    (SearchDone /\ Successful(response) /\ response.body.k = "dict") =>
        IF ~HasKey(response.body, k_items)
        THEN exc = "none" /\ ret = <<>>
        ELSE LET items == DictGet(response.body, k_items, None)
             IN items.k = "list" =>
                   /\ exc = "none"
                   /\ Len(ret) = Len(items.v)
                   /\ \A n \in 1..Len(items.v) :
                         /\ ret[n].title = FieldOr(items.v[n], k_title, None)
                         /\ ret[n].authors = FieldOr(items.v[n], k_authors, JList(<<>>))
                         /\ ret[n].description = FieldOr(items.v[n], k_description, JStr(<<>>))
                         /\ ret[n].categories = FieldOr(items.v[n], k_categories, JList(<<>>))
                         /\ ret[n].preview_link = FieldOr(items.v[n], k_previewLink, None)
                         /\ ret[n].page_count = FieldOr(items.v[n], k_pageCount, None)

\* C3: recommend_similar_books returns exactly the first
\* max_recommendations entries (or all, if fewer) of the accumulated
\* title-filtered results of the category searches, in category order.
C3_ReturnsFirstOfAccumulated ==
    RecommendDone =>
        /\ Len(ret) = Min(max_recommendations, Len(similar_books))
        /\ \A n \in 1..Len(ret) : ret[n] = similar_books[n]

\* the records of a list whose title differs from the book_title argument
Others(books) == SelectSeq(books, LAMBDA b : b.title # JStr(book_title))
Tail2(s, n) == SubSeq(s, Len(s) - n + 1, Len(s))

\* C4: no record titled exactly book_title is accumulated or returned, and
\* every record of a category search whose title differs from book_title
\* is kept, in order, at the end of the accumulated sequence.
C4_ExactTitleFilter ==
    op = "recommend_similar_books" =>
        /\ \A n \in 1..Len(ret) : ret[n].title # JStr(book_title)
        /\ \A n \in 1..Len(similar_books) : similar_books[n].title # JStr(book_title)
        /\ Len(Others(found)) <= Len(similar_books)
        /\ Tail2(similar_books, Len(Others(found))) = Others(found)

\* reference "Dune": a category search found "Dune" and "Dune Messiah";
\* the first was removed, the second kept and returned
C4_Witness ==
    /\ RecommendDone /\ book_title = U("Dune")
    /\ \E n \in 1..Len(found) : found[n].title = JStr(U("Dune"))
    /\ \E n \in 1..Len(found) : found[n].title = JStr(U("Dune Messiah"))
    /\ ret # <<>>
    /\ ret[Len(ret)].title = JStr(U("Dune Messiah"))

\* C5: when the reference lookup Search(book_title, max_results=1) returns
\* an empty sequence, recommend_similar_books has returned an empty
\* sequence and the lookup is the only Search call issued.
C5_EmptyLookupReturnsAtOnce ==
    (op = "recommend_similar_books" /\ lookup = "empty") =>
        /\ pc = "done"
        /\ ret = <<>> /\ exc = "none"
        /\ calls = <<[q |-> book_title, maxResults |-> 1]>>

\* the lookup found nothing because the service answered without items
C5_Witness ==
    /\ RecommendDone /\ lookup = "empty"
    /\ log = <<>>
    /\ Len(calls) = 1

\* C6 as stated: after any failure during recommend_similar_books, that of
\* a Search call for the reference title or for a category included, the
\* result is the empty sequence, logged, and nothing is raised.
C6_AnyFailureGivesEmpty ==
    (RecommendDone /\ log # <<>>) => (ret = <<>> /\ exc = "none")

\* C6, amended: recommend_similar_books never raises; an exception that
\* reaches its except clause (a Search call that raises, categories that
\* cannot be iterated) is logged and gives the empty sequence; so does a
\* reference lookup that fails or finds nothing; a transport or HTTP
\* failure of a category search is logged by search_books and only makes
\* that category contribute no record.
C6_FailureHandling ==
    RecommendDone =>
        /\ exc = "none"
        /\ (caught # "none" =>
               ret = <<>> /\ log # <<>> /\ log[Len(log)] = "recommend_error")
        /\ (lookup \in {"raised", "empty"} => ret = <<>>)
        /\ (lookup = "raised" => caught # "none")
        /\ (caught = "none" => ret = Truncate(similar_books, max_recommendations))

\* a category search raised after another one had found a record: empty
\* result, logged
C6_Witness ==
    /\ RecommendDone /\ lookup = "found"
    /\ caught # "none"
    /\ similar_books # <<>>
    /\ ret = <<>>

\* the pieces of a text before and after its trimmed part
AllWhite(text) == \A n \in 1..Len(text) : text[n] \in Whitespace
IsTrimOf(t, text) ==
    /\ (t # <<>> => t[1] \notin Whitespace /\ t[Len(t)] \notin Whitespace)
    /\ \E a \in 0..Len(text) :
          /\ a + Len(t) <= Len(text)
          /\ SubSeq(text, a + 1, a + Len(t)) = t
          /\ AllWhite(SubSeq(text, 1, a))
          /\ AllWhite(SubSeq(text, a + Len(t) + 1, Len(text)))

\* C7: analyze_books never raises; when building the context fails, the
\* generation call fails or there is no candidate it returns the apology
\* string (so does a candidate without text); otherwise the first
\* candidate's text without its leading and trailing whitespace.
C7_AnalyzeNeverRaises ==
    AnalyzeDone =>
        /\ exc = "none"
        /\ IF \/ \E n \in 1..Len(books_arg) : BlockRaises(books_arg[n])
              \/ response.kind = "error"
              \/ response.generations = <<>>
              \/ response.generations[1] = None
           THEN ret = Apology /\ log = <<"analyze_error">>
           ELSE IsTrimOf(ret, response.generations[1].v) /\ log = <<>>

\* a first candidate with whitespace on both sides, returned trimmed
C7_Witness ==
    /\ AnalyzeDone /\ response # None /\ response.kind = "ok"
    /\ Len(response.generations) = 2
    /\ response.generations[1] = JStr(<<160, 97, 32>>)
    /\ ret = <<97>>

\* C8: whatever search_books returns when the service is down (transport
\* failure or non-2xx status) is what it returns when the service succeeds
\* with no items: the empty sequence.
C8_DownLooksLikeNoResults ==
    (SearchDone /\ exc = "none"
     /\ (Down(response) \/ (Successful(response) /\ NoItems(response.body)))) =>
        ret = <<>>

\* C9: when the lookup returned a record with k categories (a list of
\* category names), exactly 1 + k
\* Search calls are issued: the lookup with max_results 1, then one
\* subject:<category> search per category, in order, with
\* max_results = max_recommendations; with k = 0 the result is empty.
C9_OneSearchPerCategory ==
    (RecommendDone /\ lookup = "found"
     /\ \A n \in 1..Len(categories) : categories[n] \in {JStr(c) : c \in Cats}) =>
        /\ Len(calls) = 1 + Len(categories)
        /\ calls[1] = [q |-> book_title, maxResults |-> 1]
        /\ \A n \in 1..Len(categories) :
              calls[1 + n] = [q |-> U("subject:") \o Str(categories[n]),
                              maxResults |-> max_recommendations]
        /\ (categories = <<>> => ret = <<>>)

\* how many records of a list carry a title
Count(books, title) == Cardinality({n \in 1..Len(books) : books[n].title = title})

\* C10: a category search that returns adds, for every title other than
\* the book_title argument, all its records of that title to the
\* accumulated ones: nothing is removed for carrying the resolved reference
\* title or a title an earlier category already produced.
C10_FilterUsesArgumentOnly ==
    [][(op = "recommend_similar_books" /\ pc = "loop"
        /\ Len(calls') = Len(calls) + 1 /\ caught' = "none") =>
          \A t \in {JStr(x) : x \in RefTitles} \ {JStr(book_title)} :
              Count(similar_books', t) = Count(similar_books, t) + Count(found', t)]_vars

\* the lookup resolved "Dune" to another title; two categories each found
\* one record with that title and both are returned
C10_Witness ==
    /\ RecommendDone /\ lookup = "found"
    /\ ref_title # JStr(book_title) /\ ref_title # None
    /\ Len(found) = 1
    /\ Len(ret) = 2
    /\ ret[1].title = ref_title /\ ret[2].title = ref_title
====
